---------------------------- MODULE Spec2Model ----------------------------
(***************************************************************************)
(* A model of tomocg's SolverTomo (src/src/tomocg/solver_tomo.py): the     *)
(* context-manager life cycle of the session, the partitioned forward and  *)
(* adjoint transforms, the step-halving line search and the conjugate      *)
(* gradient solvers built on them.                                         *)
(*                                                                         *)
(* Numbers are floating-point values.  An array entry is an IEEE           *)
(* binary32 number (the arrays are complex64; the model draws inputs       *)
(* with zero imaginary part, for which conj is the identity and the        *)
(* complex operations are the real ones, except for the product with an    *)
(* infinite gamma; line_search called on its own is given complex64 or     *)
(* float32 arrays); the step gamma is a Python float (binary64).  A        *)
(* finite value is a pair <<m, e>> standing for m * 2^e with m odd, zero   *)
(* is <<0, 0>> (the sign of a zero is not kept), and the exponent          *)
(* SpecialExp marks the infinities <<1, .>>, <<-1, .>> and the NaN <<0,    *)
(* .>>.  Every operation rounds its exact result to the nearest value of   *)
(* the format, ties to even.                                               *)
(*                                                                         *)
(* Arrays are functions from 0-based index sets, as in numpy: a volume of  *)
(* depth L is a function on 0..L-1 (the width is N = 1, so a depth slice   *)
(* is one number) and a projection set is a function on                    *)
(* (0..NTHETA-1) \X (0..L-1).                                              *)
(*                                                                         *)
(* The code leaves three things to the array library it runs on, and the   *)
(* model draws each of them when a call starts (the record lib): the       *)
(* order in which a sum adds the flattened (C order) entries of an array   *)
(* (one after another, numpy's pairwise blocks, over the entries or over   *)
(* the floats of a complex array, or the tree of a device                  *)
(* reduction), the way a complex quotient is formed (the rounded quotient, *)
(* numpy's a * (1/b), the scaled form of the device library, or, under     *)
(* numpy's value-based promotion of scalars, in binary64), and the way     *)
(* the norm takes the modulus of a complex entry (from the squares of its  *)
(* parts, or by hypot).  A product and a sum are rounded one after the     *)
(* other (no fused multiply-add).                                          *)
(***************************************************************************)
EXTENDS Integers, Sequences, FiniteSets, TLC

\* ------------------------------------------------------------- bounds
MaxNz == 4          \* largest volume depth nz
MaxPnz == 2         \* largest partition size pnz
MaxVal == 2         \* largest entry of an input array
MaxTiter == 3       \* largest iteration count titer
MaxBlocks == 2      \* with-blocks entered on one session
MaxDirectFrees == 1 \* calls of free() made by the user of a session

\* ------------------------------------------- dimensions of the session
NTHETA == 2         \* number of projection angles handed to the constructor
N == 1              \* pixel width handed to the constructor

\* ------------------------------------------------------- floating point
MantBits == 24          \* binary32: bits of the significand
MinExp == -149          \* binary32: exponent of the smallest positive value
MaxExp == 128           \* binary32: values are below 2^MaxExp
DblMantBits == 53       \* binary64, the same three
DblMinExp == -1074
DblMaxExp == 1024
SpecialExp == 2000      \* the exponent field of an infinity and of NaN

F == Int \X Int

Abs(a) == IF a < 0 THEN -a ELSE a
Sign(a) == IF a < 0 THEN -1 ELSE IF a > 0 THEN 1 ELSE 0
Max(a, b) == IF a >= b THEN a ELSE b
Min(a, b) == IF a <= b THEN a ELSE b

\* number of bits of a natural number
BitLen[x \in Nat] == IF x = 0 THEN 0 ELSE 1 + BitLen[x \div 2]

\* the pair <<m, e>> of a value m * 2^e: m odd
Canon[m \in Int, e \in Int] ==
    IF m = 0 THEN <<0, 0>>
    ELSE IF m % 2 = 0 THEN Canon[m \div 2, e + 1] ELSE <<m, e>>

FlZero == <<0, 0>>
FlOne == <<1, 0>>
FlInf == <<1, SpecialExp>>
FlNaN == <<0, SpecialExp>>
IsNaN(a) == a[2] = SpecialExp /\ a[1] = 0
IsInf(a) == a[2] = SpecialExp /\ a[1] # 0
Infinity(s) == <<s, SpecialExp>>

\* m * 2^e rounded to nearest, ties to even, in the format of p significant
\* bits whose values are multiples of 2^emin and below 2^emax
RoundTo(m, e, p, emin, emax) ==
    IF m = 0 THEN FlZero
    ELSE LET a == Abs(m)
             nb == BitLen[a]
             sh == Max(nb - p, emin - e)
         IN  IF sh <= 0
             THEN IF nb + e > emax THEN Infinity(Sign(m)) ELSE Canon[m, e]
             ELSE IF sh > nb THEN FlZero
             ELSE LET q == a \div (2 ^ sh)
                      r == a % (2 ^ sh)
                      half == 2 ^ (sh - 1)
                      q1 == IF r > half \/ (r = half /\ q % 2 = 1) THEN q + 1 ELSE q
                  IN  IF BitLen[q1] + e + sh > emax THEN Infinity(Sign(m))
                      ELSE Canon[Sign(m) * q1, e + sh]

Round32[m \in Int, e \in Int] == RoundTo(m, e, MantBits, MinExp, MaxExp)
Round64[m \in Int, e \in Int] == RoundTo(m, e, DblMantBits, DblMinExp, DblMaxExp)

\* an inexact intermediate result keeps a sticky last bit
Jam(x, exact) == IF exact \/ x % 2 = 1 THEN x ELSE x + 1

FlNeg[a \in F] == <<-a[1], a[2]>>

FlAdd[a \in F, b \in F] ==
    IF IsNaN(a) \/ IsNaN(b) THEN FlNaN
    ELSE IF IsInf(a) THEN (IF IsInf(b) /\ b[1] # a[1] THEN FlNaN ELSE a)
    ELSE IF IsInf(b) THEN b
    ELSE IF a[1] = 0 THEN b
    ELSE IF b[1] = 0 THEN a
    ELSE LET big == BitLen[Abs(a[1])] + a[2] >= BitLen[Abs(b[1])] + b[2]
             x == IF big THEN a ELSE b
             y == IF big THEN b ELSE a
             up == 28 - BitLen[Abs(x[1])]
             ex == x[2] - up
             s == ex - y[2]
             my == IF s <= 0 THEN y[1] * (2 ^ (-s))
                   ELSE IF s > 25 THEN (IF y[1] > 0 THEN 0 ELSE -1)
                   ELSE y[1] \div (2 ^ s)
         IN  Round32[Jam(x[1] * (2 ^ up) + my, s <= 0), ex]

FlSub[a \in F, b \in F] == FlAdd[a, FlNeg[b]]

FlMul[a \in F, b \in F] ==
    IF IsNaN(a) \/ IsNaN(b) THEN FlNaN
    ELSE IF IsInf(a) \/ IsInf(b)
    THEN (IF a[1] = 0 \/ b[1] = 0 THEN FlNaN ELSE Infinity(Sign(a[1]) * Sign(b[1])))
    ELSE IF a[1] = 0 \/ b[1] = 0 THEN FlZero
    ELSE LET x == Abs(a[1])
             y == Abs(b[1])
             s == Sign(a[1]) * Sign(b[1])
         IN  IF BitLen[x] + BitLen[y] <= 30 THEN Round32[s * x * y, a[2] + b[2]]
             ELSE LET x1 == x \div 4096
                      x0 == x % 4096
                      y1 == y \div 4096
                      y0 == y % 4096
                      mid == x1 * y0 + x0 * y1
                      lo0 == x0 * y0 + (mid % 4096) * 4096
                      lo == lo0 % 16777216
                      hi == x1 * y1 + (mid \div 4096) + (lo0 \div 16777216)
                      t == BitLen[hi] - 4
                      q == hi * (2 ^ (24 - t)) + (lo \div (2 ^ t))
                  IN  Round32[s * Jam(q, lo % (2 ^ t) = 0), a[2] + b[2] + t]

\* n bits of the quotient rem / den, and what is left
LongDiv[rem \in Nat, den \in Nat, q \in Nat, n \in Nat] ==
    IF n = 0 THEN <<q, rem>>
    ELSE IF rem >= den THEN LongDiv[2 * (rem - den), den, 2 * q + 1, n - 1]
    ELSE LongDiv[2 * rem, den, 2 * q, n - 1]

FlDiv[a \in F, b \in F] ==
    IF IsNaN(a) \/ IsNaN(b) THEN FlNaN
    ELSE IF IsInf(a) THEN (IF IsInf(b) THEN FlNaN
                           ELSE Infinity(a[1] * (IF b[1] < 0 THEN -1 ELSE 1)))
    ELSE IF IsInf(b) THEN FlZero
    ELSE IF b[1] = 0 THEN (IF a[1] = 0 THEN FlNaN ELSE Infinity(Sign(a[1])))
    ELSE IF a[1] = 0 THEN FlZero
    ELSE LET ua == 24 - BitLen[Abs(a[1])]
             ub == 24 - BitLen[Abs(b[1])]
             qr == LongDiv[Abs(a[1]) * (2 ^ ua), Abs(b[1]) * (2 ^ ub), 0, 27]
         IN  Round32[Sign(a[1]) * Sign(b[1]) * Jam(qr[1], qr[2] = 0),
                     (a[2] - ua) - (b[2] - ub) - 26]

\* the 26 bits of the square root of m2 * 2^26, two bits of it per step
SqrtStep[m2 \in Nat, r \in Nat, rem \in Nat, i \in Nat] ==
    IF i = 26 THEN <<r, rem>>
    ELSE LET pair == IF i <= 12 THEN (m2 \div (4 ^ (12 - i))) % 4 ELSE 0
             rem1 == 4 * rem + pair
             c == 4 * r + 1
         IN  IF rem1 >= c THEN SqrtStep[m2, 2 * r + 1, rem1 - c, i + 1]
             ELSE SqrtStep[m2, 2 * r, rem1, i + 1]

FlSqrt[a \in F] ==
    IF IsNaN(a) \/ a[1] < 0 THEN FlNaN
    ELSE IF IsInf(a) \/ a[1] = 0 THEN a
    ELSE LET k0 == 52 - BitLen[a[1]]
             k == IF (a[2] - k0) % 2 = 0 THEN k0 ELSE k0 - 1
             rr == SqrtStep[a[1] * (2 ^ (k - 26)), 0, 0, 0]
         IN  Round32[Jam(rr[1], rr[2] = 0), (a[2] - k) \div 2]

\* a Python float handed to an operation on a complex64 array
Cast32(g) == IF g[2] = SpecialExp THEN g ELSE Round32[g[1], g[2]]

\* an integer as an array entry
FromInt(n) == Round32[n, 0]

\* what "x < 0" and "x <= y" give on floats (False when a NaN is involved)
FlNegative(x) == ~IsNaN(x) /\ x[1] < 0
FlLe(x, y) == ~IsNaN(x) /\ ~IsNaN(y) /\ (x = y \/ FlNegative(FlSub[x, y]))

\* ------------------------------------------------------------- arrays
\* An array expression of numpy / cupy is computed when it is written, into a
\* new array: the function is made explicit before it is used.
Array(f) == CHOOSE g \in {f} : g = g

VolIdx(len) == 0 .. (len - 1)
ProjIdx(len) == (0 .. (NTHETA - 1)) \X (0 .. (len - 1))
ZerosVol(len) == [z \in VolIdx(len) |-> FlZero]
ZerosProj(len) == [p \in ProjIdx(len) |-> FlZero]
NoArray == <<>>

\* a.ravel(): the entries in C order, as a sequence (of a volume, of a
\* set of projections)
RavelVol(a) == [i \in 1 .. Cardinality(DOMAIN a) |-> a[i - 1]]
RavelProj(a) ==
    LET len == Cardinality(DOMAIN a) \div NTHETA
    IN  [i \in 1 .. (NTHETA * len) |-> a[<<(i - 1) \div len, (i - 1) % len>>]]

\* A sum adds the numbers of a sequence two at a time, in an order that is
\* the library's.  An order is the sequence of its additions <<i, j>>:
\* entry i takes the sum of the entries i and j; the sum is entry 1 at the
\* end.
RECURSIVE AddAll(_, _)
AddAll(v, adds) ==
    IF adds = <<>> THEN v[1]
    ELSE AddAll([v EXCEPT ![adds[1][1]] = FlAdd[@, v[adds[1][2]]]], Tail(adds))

\* from the first number to the last
SeqAdds(n) == [i \in 1 .. (n - 1) |-> <<1, i + 1>>]

\* numpy's pairwise sum of at most 128 numbers with `lanes` running sums:
\* fewer than `lanes` are added from the first to the last; otherwise the
\* running sums take the numbers j, j+lanes, ... of the whole blocks, are
\* added by neighbours, ((r1+r2)+(r3+r4))+((r5+r6)+(r7+r8)) for eight and
\* (r1+r2)+(r3+r4) for four, and the rest is added one by one
PairwiseAdds(n, lanes) ==
    LET full == n - (n % lanes)
    IN  IF n < lanes THEN SeqAdds(n)
        ELSE [i \in 1 .. (full - lanes) |-> <<((i - 1) % lanes) + 1, i + lanes>>]
             \o SubSeq(<<<<1, 2>>, <<3, 4>>, <<1, 3>>, <<5, 6>>, <<7, 8>>, <<5, 7>>, <<1, 5>>>>,
                       1, lanes - 1)
             \o [i \in 1 .. (n - full) |-> <<1, full + i>>]

\* a block reduction of a GPU: entry i takes entry i + stride for the
\* strides p/2, p/4, ..., 1 (p the power of two that covers the sequence)
TreeAdds(n) ==
    LET p[m \in Nat] == IF m <= 1 THEN 1 ELSE 2 * p[(m + 1) \div 2]
        level[stride \in Nat] ==
            IF stride = 0 THEN <<>>
            ELSE [i \in 1 .. Max(0, Min(stride, n - stride)) |-> <<i, i + stride>>]
                 \o level[stride \div 2]
    IN  level[p[n] \div 2]

\* the orders in which a library sums an array.  numpy's pairwise sum
\* counts the floats of an array, and a complex entry is two of them: the
\* sum of a complex array keeps four running sums of entries ("pairf").
\* A library that counts the entries keeps eight for every array ("pair").
SumOrders == {"seq", "pair", "pairf", "tree"}

\* the sum of the entries s of an array whose entries are `width` floats
\* each (1: real, 2: complex)
Sum(order, width, s) ==
    IF Len(s) = 0 THEN FlZero
    ELSE AddAll(s, CASE order = "seq" -> SeqAdds(Len(s))
                     [] order = "pair" -> PairwiseAdds(Len(s), 8)
                     [] order = "pairf" -> PairwiseAdds(Len(s), 8 \div width)
                     [] order = "tree" -> TreeAdds(Len(s)))

FAdd(a, b) == Array([x \in DOMAIN a |-> FlAdd[a[x], b[x]]])
FSub(a, b) == Array([x \in DOMAIN a |-> FlSub[a[x], b[x]]])
FNeg(a) == Array([x \in DOMAIN a |-> FlNeg[a[x]]])
FScale(g, a) == Array([x \in DOMAIN a |-> FlMul[g, a[x]]])
FMul(a, b) == Array([x \in DOMAIN a |-> FlMul[a[x], b[x]]])

\* linalg.norm of the entries s of an array: the root of the sum of the
\* squares
Norm(order, s) == FlSqrt[Sum(order, 1, [i \in DOMAIN s |-> FlMul[s[i], s[i]]])]

\* linalg.norm(a)**2 on float32
Norm2(order, s) == LET Square(nrm) == FlMul[nrm, nrm] IN Square(Norm(order, s))

\* ----------------------------------------------------- complex division
\* The quotient a / b of two complex64 numbers whose imaginary parts are 0,
\* as the libraries form it (no fused multiply-add):
\*   "exact"   the rounded quotient of the real parts;
\*   "smith"   numpy: scl = 1/(br + bi*(bi/br)), then (ar + ai*(bi/br))*scl;
\*   "thrust"  cupy: both operands scaled by 1/max(|br|, |bi|), then
\*             (ars*brs + ais*bis) * (1/(brs*brs + bis*bis)).
DivModes == {"exact", "smith", "thrust"}

CDiv(mode, a, b) ==
    CASE mode = "exact" -> FlDiv[a, b]
      [] mode = "smith" -> FlMul[a, FlDiv[FlOne, b]]
      [] mode = "thrust" ->
            LET oos == FlDiv[FlOne, <<Abs(b[1]), b[2]>>]
                ars == FlMul[a, oos]
                brs == FlMul[b, oos]
            IN  FlMul[FlMul[ars, brs], FlDiv[FlOne, FlMul[brs, brs]]]

FDivBy(mode, a, c) == Array([x \in DOMAIN a |-> CDiv(mode, a[x], c)])

\* ------------------------------------------------------- wide integers
\* A natural number of any size is the sequence of its digits to the base
\* Limb, the lowest first, without zeros at the high end.
Limb == 4096
LimbBits == 12


BigTrim(x) ==
    LET top[i \in 0 .. Len(x)] ==
            IF i = 0 THEN 0 ELSE IF x[i] # 0 THEN i ELSE top[i - 1]
    IN  SubSeq(x, 1, top[Len(x)])

BigOfNat[n \in Nat] == IF n = 0 THEN <<>> ELSE <<n % Limb>> \o BigOfNat[n \div Limb]

\* the value of a wide integer below 2^31
BigToNat(x) ==
    LET v[i \in 0 .. Len(x)] == IF i = 0 THEN 0 ELSE x[Len(x) + 1 - i] + Limb * v[i - 1]
    IN  v[Len(x)]

BigDigit(x, i) == IF i >= 1 /\ i <= Len(x) THEN x[i] ELSE 0

BigBitLen(x) == IF Len(x) = 0 THEN 0 ELSE LimbBits * (Len(x) - 1) + BitLen[x[Len(x)]]

BigAdd(x, y) ==
    LET n == Max(Len(x), Len(y)) + 1
        t[i \in 0 .. n] ==
            IF i = 0 THEN 0
            ELSE BigDigit(x, i) + BigDigit(y, i) + (t[i - 1] \div Limb)
    IN  BigTrim([i \in 1 .. n |-> t[i] % Limb])

\* -1, 0 or 1 as x is below, equal to or above y
BigCmp(x, y) ==
    LET n == Max(Len(x), Len(y))
        c[i \in 0 .. n] ==
            IF i = 0 THEN 0
            ELSE IF BigDigit(x, i) = BigDigit(y, i) THEN c[i - 1]
            ELSE IF BigDigit(x, i) < BigDigit(y, i) THEN -1 ELSE 1
    IN  c[n]

\* x - y for x >= y
BigSub(x, y) ==
    LET n == Len(x)
        t[i \in 0 .. n] ==
            IF i = 0 THEN Limb
            ELSE BigDigit(x, i) - BigDigit(y, i) + Limb - (IF t[i - 1] < Limb THEN 1 ELSE 0)
    IN  BigTrim([i \in 1 .. n |-> t[i] % Limb])

BigMul(x, y) ==
    LET n == Len(x) + Len(y)
        col(k) ==
            LET lo == Max(1, k + 1 - Len(y))
                hi == Min(k, Len(x))
                part[i \in (lo - 1) .. hi] ==
                    IF i = lo - 1 THEN 0 ELSE part[i - 1] + x[i] * y[k + 1 - i]
            IN  part[hi]
        t[k \in 0 .. n] == IF k = 0 THEN 0 ELSE col(k) + (t[k - 1] \div Limb)
    IN  BigTrim([k \in 1 .. n |-> t[k] % Limb])

\* x * 2^k
BigShl(x, k) ==
    LET q == k \div LimbBits
        f == 2 ^ (k % LimbBits)
        n == Len(x) + q + 1
    IN  BigTrim([i \in 1 .. n |->
                    IF i <= q THEN 0
                    ELSE ((BigDigit(x, i - q) * f) % Limb)
                             + ((BigDigit(x, i - q - 1) * f) \div Limb)])

\* x \div 2^k
BigShr(x, k) ==
    LET q == k \div LimbBits
        r == k % LimbBits
        n == Max(Len(x) - q, 0)
    IN  BigTrim([i \in 1 .. n |->
                    (BigDigit(x, i + q) \div (2 ^ r))
                        + ((BigDigit(x, i + q + 1) % (2 ^ r)) * (2 ^ (LimbBits - r)))])

\* bit i of x (bit 0 is the lowest)
BigBit(x, i) == (BigDigit(x, (i \div LimbBits) + 1) \div (2 ^ (i % LimbBits))) % 2

\* x is a multiple of 2^k
BigLowZero(x, k) ==
    /\ \A i \in 1 .. Min(k \div LimbBits, Len(x)) : x[i] = 0
    /\ BigDigit(x, (k \div LimbBits) + 1) % (2 ^ (k % LimbBits)) = 0

\* X * 2^e rounded to nearest, ties to even, to p significant bits and to a
\* multiple of 2^emin: the pair of the rounded wide integer and its exponent
BigRound(X, e, p, emin) ==
    LET sh == Max(BigBitLen(X) - p, emin - e)
    IN  IF sh <= 0 THEN <<X, e>>
        ELSE LET q == BigShr(X, sh)
                 up == /\ BigBit(X, sh - 1) = 1
                       /\ (~BigLowZero(X, sh - 1) \/ BigBit(q, 0) = 1)
             IN  <<IF up THEN BigAdd(q, <<1>>) ELSE q, e + sh>>

\* ------------------------------------------------------------ binary64
\* A finite binary64 value is a triple <<s, X, e>> of its sign s (0 for
\* zero), a wide integer X and an exponent: s * X * 2^e.  The values that
\* arise from binary32 operands stay clear of the overflow and underflow
\* thresholds of binary64.
DblOf(a) == <<Sign(a[1]), BigOfNat[Abs(a[1])], a[2]>>

DblRound(s, X, e) ==
    LET r == BigRound(X, e, DblMantBits, DblMinExp)
    IN  IF Len(r[1]) = 0 THEN <<0, <<>>, 0>> ELSE <<s, r[1], r[2]>>

\* the double nearest to 1e-32: 7307508186654515 * 2^-159
Eps64 == <<1, <<1843, 2698, 981, 3938, 25>>, -159>>

\* v + w in binary64
DblAdd(v, w) ==
    IF v[1] = 0 THEN w
    ELSE IF w[1] = 0 THEN v
    ELSE LET e == Min(v[3], w[3])
             x == BigShl(v[2], v[3] - e)
             y == BigShl(w[2], w[3] - e)
             c == BigCmp(x, y)
         IN  IF v[1] = w[1] THEN DblRound(v[1], BigAdd(x, y), e)
             ELSE IF c = 0 THEN <<0, <<>>, 0>>
             ELSE IF c > 0 THEN DblRound(v[1], BigSub(x, y), e)
             ELSE DblRound(w[1], BigSub(y, x), e)

DblMul(v, w) ==
    IF v[1] = 0 \/ w[1] = 0 THEN <<0, <<>>, 0>>
    ELSE DblRound(v[1] * w[1], BigMul(v[2], w[2]), v[3] + w[3])

\* the 56 quotient bits of (rh * 2^27 + rl) * 2^55 by bh * 2^27 + bl, one
\* per step and in two halves of 28 bits, and whether a remainder is left
RecipStep[rh \in Nat, rl \in Nat, bh \in Nat, bl \in Nat, qh \in Nat, ql \in Nat, i \in Nat] ==
    IF i = 56 THEN <<qh, ql, rh # 0 \/ rl # 0>>
    ELSE LET ge == rh > bh \/ (rh = bh /\ rl >= bl)
             dl == IF ge THEN rl - bl ELSE rl
             sl == IF dl < 0 THEN dl + 2 ^ 27 ELSE dl
             sh == IF ge THEN rh - bh - (IF dl < 0 THEN 1 ELSE 0) ELSE rh
             bit == IF ge THEN 1 ELSE 0
             nl == (2 * sl) % (2 ^ 27)
             nh == 2 * sh + ((2 * sl) \div (2 ^ 27))
         IN  IF i < 28 THEN RecipStep[nh, nl, bh, bl, 2 * qh + bit, ql, i + 1]
             ELSE RecipStep[nh, nl, bh, bl, qh, 2 * ql + bit, i + 1]

\* 1 / v in binary64, for v # 0
DblRecip(v) ==
    LET tz[i \in Nat] == IF BigBit(v[2], i) = 1 THEN i ELSE tz[i + 1]
        b == <<v[1], BigShr(v[2], tz[0]), v[3] + tz[0]>>
        nb == BigBitLen(b[2])
        one == BigShl(<<1>>, nb - 1)
        Lo(x) == BigToNat(BigSub(x, BigShl(BigShr(x, 27), 27)))
        Hi(x) == BigToNat(BigShr(x, 27))
        qr == RecipStep[Hi(one), Lo(one), Hi(b[2]), Lo(b[2]), 0, 0, 0]
        q == BigAdd(BigShl(BigOfNat[qr[1]], 28), BigOfNat[qr[2]])
        qs == BigAdd(BigShl(q, 1), IF qr[3] THEN <<1>> ELSE <<>>)
    IN  DblRound(b[1], qs, 0 - 56 - (nb - 1) - b[3])

\* a binary64 value converted to binary32
DblTo32(v) ==
    IF v[1] = 0 THEN FlZero
    ELSE LET r == BigRound(v[2], v[3], MantBits, MinExp)
         IN  IF BigBitLen(r[1]) + r[2] > MaxExp THEN Infinity(v[1])
             ELSE Canon[v[1] * BigToNat(r[1]), r[2]]
VARIABLES
    nz, pnz,          \* self.nz, self.pnz: depth of the volume, partition size
    withDepth,        \* with-blocks of the session entered and not yet left
    blocks,           \* number of with-blocks entered on the session so far
    exitKind,         \* how the last with-block was left: none, normal, error, interrupt
    freeCalls,        \* number of calls of the native free()
    directFrees,      \* those of them made by the user, not by __exit__
    op, pc,           \* the method being run and the position in it
    argU, argXi,      \* the array arguments of the call (volume, projections)
    titer,            \* the iteration count of a cg call
    res,              \* the host result being assembled / the returned value
    k,                \* the partition index of a batch loop
    cu, cxi, ci,      \* cg: the volume u, the target xi0, the iteration index i
    Ru, grad, grad0, d, Rd, gamma,   \* cg: the locals of one iteration
    lsGamma0, lsGamma, lsHalvings,   \* line_search: initial gamma, gamma, halvings
    lsTurn,           \* line_search: parity of the turns of the while loop
    dtype,            \* line_search: the element type of Ru and Rd
    fwdCalls, adjCalls,   \* native fwd / adj calls made by the running call
    nativeAfterFree,  \* a native fwd / adj call was made after free()
    ubMode,           \* what a native call on a released session produces
    lib,              \* how the array libraries of the build compute
    writes,           \* per depth index: how often the batch loop wrote it
    trace,            \* cg: the steps of the run so far, in order
    gradLog           \* cg: the gradients computed by the run so far

vars == <<nz, pnz, withDepth, blocks, exitKind, freeCalls, directFrees, op, pc,
          argU, argXi, titer, res, k, cu, cxi, ci, Ru, grad, grad0, d, Rd,
          gamma, lsGamma0, lsGamma, lsHalvings, lsTurn, dtype, fwdCalls,
          adjCalls,
          nativeAfterFree, ubMode, lib, writes, trace, gradLog>>

session == <<nz, pnz, withDepth, blocks, exitKind, freeCalls, directFrees>>
args == <<argU, argXi, titer>>
cgLocals == <<Ru, grad, grad0, d, Rd, gamma>>
lsVars == <<lsGamma0, lsGamma, lsHalvings, lsTurn, dtype>>

Released == freeCalls > 0

\* ------------------------------------------- the native transform (radonusfft)
\* The compiled extension is not part of the sources: it is modelled as the
\* spec describes it, a deterministic linear map per depth slice and its
\* transpose, computed in binary32.  With N = 1 the projection of slice
\* value v at angle t is Weight(t) * v.
Weight(t) == FromInt(t + 1)

NativeFwd(u) ==
    Array([p \in ProjIdx(pnz) |-> FlMul[Weight(p[1]), u[p[2]]]])

NativeAdj(data) ==
    Array([z \in VolIdx(pnz) |->
        Sum("seq", 1, [i \in 1 .. NTHETA |-> FlMul[Weight(i - 1), data[<<i - 1, z>>]]])])

\* ------------------------------------------------ fwd_tomo and adj_tomo
\* res = cp.zeros(...); self.fwd(res.data.ptr, u.data.ptr); return res.
\* Nothing in the wrapper looks at the state of the session: on a released
\* session the native call is made all the same, and what it leaves in res
\* is undefined (ubMode: the zeros the buffer was allocated with, or the
\* values a live session would give; a crash is the action NativeRaise).
FwdTomo(u) ==
    IF ubMode = "zeros" THEN ZerosProj(pnz) ELSE NativeFwd(u)

AdjTomo(data) ==
    IF ubMode = "zeros" THEN ZerosVol(pnz) ELSE NativeAdj(data)

\* ------------------------------------------------------- partitioning
NumParts == nz \div pnz
Ids(kk) == (kk * pnz) .. ((kk + 1) * pnz - 1)
TakeVol(u, kk) == Array([j \in VolIdx(pnz) |-> u[kk * pnz + j]])
TakeProj(data, kk) ==
    Array([p \in ProjIdx(pnz) |-> data[<<p[1], kk * pnz + p[2]>>]])
\* a placement that would put every partition at the front of the result
PutVolAtFront(r, kk, part) ==
    Array([z \in DOMAIN r |-> IF z \in Ids(0) THEN part[z] ELSE r[z]])
PutVol(r, kk, part) ==
    Array([z \in DOMAIN r |-> IF z \in Ids(kk) THEN part[z - kk * pnz] ELSE r[z]])
PutProj(r, kk, part) ==
    Array([p \in DOMAIN r |->
        IF p[2] \in Ids(kk) THEN part[<<p[1], p[2] - kk * pnz>>] ELSE r[p]])

RECURSIVE FwdBatchFrom(_, _, _)
FwdBatchFrom(u, kk, r) ==
    IF kk >= NumParts THEN r
    ELSE FwdBatchFrom(u, kk + 1, PutProj(r, kk, FwdTomo(TakeVol(u, kk))))

FwdTomoBatch(u) == FwdBatchFrom(u, 0, ZerosProj(nz))

RECURSIVE AdjBatchFrom(_, _, _)
AdjBatchFrom(data, kk, r) ==
    IF kk >= NumParts THEN r
    ELSE AdjBatchFrom(data, kk + 1, PutVol(r, kk, AdjTomo(TakeProj(data, kk))))

AdjTomoBatch(data) == AdjBatchFrom(data, 0, ZerosVol(nz))
\* ------------------------------------------------------------ line_search
\* minf of cg_tomo and cg_tomo_batch2: cp.linalg.norm(Ru - xi0)**2
Minf(xi0, x) == Norm2(lib.sum, RavelProj(FSub(x, xi0)))

\* gamma*Rd on complex64 elements Re + 0j has the imaginary part
\* gamma*0 + 0*Re, which is NaN when gamma is infinite or NaN and 0 otherwise;
\* on float32 elements there is no imaginary part.  A norm that squares the
\* two parts of an entry is NaN then; a norm that takes |z| by hypot sees
\* |Re| when Re is infinite (hypot(inf, NaN) = inf) and NaN when Re is NaN,
\* which is what the real parts alone give.
ScaledImagIsNaN(g) ==
    dtype = "complex64" /\ lib.abs = "square" /\ g[2] = SpecialExp

\* minf(Ru) - minf(Ru + gamma*Rd), as the loop test computes it
LsDiff(xi0, g, ru, rd) ==
    IF ScaledImagIsNaN(g) THEN FlNaN
    ELSE FlSub[Minf(xi0, ru), Minf(xi0, FAdd(ru, FScale(Cast32(g), rd)))]

\* a loop test that would never ask for a halving
LsTestNeverLt(xi0, g, ru, rd) ==
    IF IsNaN(LsDiff(xi0, g, ru, rd)) THEN "nan" ELSE "ge"

\* The loop test "minf(Ru) - minf(Ru + gamma*Rd) < 0": "lt" when it is True
\* (the loop goes on); when it is False, "ge" if the difference is >= 0 and
\* "nan" if the difference is NaN.
LsTest(xi0, g, ru, rd) ==
    LET diff == LsDiff(xi0, g, ru, rd)
    IN  IF IsNaN(diff) THEN "nan" ELSE IF FlNegative(diff) THEN "lt" ELSE "ge"

\* gamma *= 0.5 on a Python float: exact, except that half of infinity is
\* infinity and half of the smallest positive float rounds to 0.
Halve(g) ==
    IF g[2] = SpecialExp THEN g ELSE Round64[g[1], g[2] - 1]

RECURSIVE LineSearch(_, _, _, _)
LineSearch(xi0, g, ru, rd) ==
    IF LsTest(xi0, g, ru, rd) = "lt"
    THEN LineSearch(xi0, Halve(g), ru, rd)
    ELSE g

\* ----------------------------------------------------- one cg iteration
\* self.ntheta * self.n/2, a Python float
NormConst == Round64[NTHETA * N, -1]

\* the division of an array by a number is a complex64 division whatever
\* the promotion of scalars
Gradient(adjOut) ==
    FDivBy(IF lib.div = "double" THEN "smith" ELSE lib.div, adjOut, Cast32(NormConst))

\* the 1e-32 of the denominator, as the float32 it is added as
Eps32 == <<13611295, -130>>

\* cg_tomo_batch2 under numpy's value-based promotion (numpy 1.x): the norm
\* and the sum are numpy scalars, so norm**2 is the exact double, 1e-32 is
\* added in double, the division is numpy's complex128 one, and the
\* coefficient is rounded to complex64 when it is multiplied into d
PRCoefDouble(nrm, sm) ==
    IF IsNaN(nrm) \/ IsNaN(sm) THEN FlNaN
    ELSE IF IsInf(sm) THEN (IF IsInf(nrm) THEN FlNaN ELSE FlZero)
    ELSE LET b == DblAdd(DblOf(sm), Eps64)
         IN  IF b[1] = 0 THEN (IF nrm[1] = 0 THEN FlNaN ELSE FlInf)
             ELSE IF IsInf(nrm) THEN Infinity(b[1])
             ELSE DblTo32(DblMul(DblMul(DblOf(nrm), DblOf(nrm)), DblRecip(b)))

\* norm(grad)**2 / (sum(conj(d)*(grad-grad0)) + 1e-32)
PRCoef(g, g0, dd) ==
    LET sm == Sum(lib.sum, 2, RavelVol(FMul(dd, FSub(g, g0))))
    IN  IF lib.div = "double"
        THEN PRCoefDouble(Norm(lib.sum, RavelVol(g)), sm)
        ELSE CDiv(lib.div, Norm2(lib.sum, RavelVol(g)), FlAdd[sm, Eps32])

\* a direction that would be the steepest descent in every iteration
DirectionSteepest(i, g, g0, dd) == FNeg(g)

Direction(i, g, g0, dd) ==
    IF i = 0 THEN FNeg(g)
    ELSE FAdd(FNeg(g), FScale(PRCoef(g, g0, dd), dd))

\* gamma = 0.5*self.line_search(minf, 1, Ru, Rd)
StepSize(ls) == Halve(ls)

Update(u, g, dd) == FAdd(u, FScale(Cast32(g), dd))

\* a loop that would run the body once more than range(titer)
LoopRunsOnceMore(i, t) == i <= t

\* for i in range(titer)
LoopContinues(i, t) == i < t

\* cg_tomo as a function of its arguments (one partition, live session)
RECURSIVE CgFrom(_, _, _, _)
CgFrom(xi0, st, i, t) ==
    IF ~LoopContinues(i, t) THEN st.u
    ELSE LET ru == FwdTomo(st.u)
             g == Gradient(AdjTomo(FSub(ru, xi0)))
             dd == Direction(i, g, st.grad0, st.d)
             rd == FwdTomo(dd)
             gam == StepSize(LineSearch(xi0, FlOne, ru, rd))
         IN  CgFrom(xi0, [u |-> Update(st.u, gam, dd), grad0 |-> g, d |-> dd],
                    i + 1, t)

CgTomo(xi0, u, t) == CgFrom(xi0, [u |-> u, grad0 |-> NoArray, d |-> NoArray], 0, t)
\* ------------------------------------------------------------- inputs
IntVol(len, j, a, b) == [z \in VolIdx(len) |-> FromInt(IF z = j THEN a ELSE b)]

\* volumes with one distinguished slice (constant ones included)
Volumes(len) ==
    {IntVol(len, j, a, b) : j \in VolIdx(len), a \in 0 .. MaxVal, b \in 0 .. MaxVal}

\* the zero volume or one voxel at either end
Targets(len) ==
    {IntVol(len, j, a, 0) : j \in {0, len - 1}, a \in {0, MaxVal}}

\* initial volumes of a cg run: zero, one voxel at the start, or all ones
Inits(len) ==
    {IntVol(len, 0, a, 0) : a \in {0, MaxVal}} \cup {IntVol(len, 0, 1, 1)}

\* projections of a target, exact or with an offset at angle 0
Projections(len) ==
    {[p \in ProjIdx(len) |->
        FlAdd[FlMul[Weight(p[1]), v[p[2]]], FromInt(IF p[1] = 0 THEN e ELSE 0)]] :
        v \in Targets(len), e \in 0 .. 1}

\* The transforms and solvers do not read the state of the session.  The
\* full input sets are drawn inside the first with-block of a session that
\* has not been released, and one input per call in every other state of
\* the session (outside a with-block, in a later block, after a release).
Probe == ~(withDepth = 1 /\ blocks = 1 /\ ~Released)
InVolumes(len) == IF Probe THEN {IntVol(len, 0, 1, 0)} ELSE Volumes(len)
InInits(len) == IF Probe THEN {IntVol(len, 0, 1, 0)} ELSE Inits(len)
InProjections(len) ==
    IF Probe THEN {[p \in ProjIdx(len) |-> Weight(p[1])]} ELSE Projections(len)
InTiters == IF Probe THEN 0 .. 1 ELSE 0 .. MaxTiter
UbModes == IF Released THEN {"zeros", "aslive"} ELSE {"live"}

\* arguments of a direct line_search call: small vectors and three gammas
LsVectors(lo, hi) == [ProjIdx(1) -> {FromInt(v) : v \in lo .. hi}]
LsTargets == {[p \in ProjIdx(1) |-> FromInt(c)] : c \in 0 .. 1}
LsGammas == {FlOne, FromInt(2), FlInf}
LsDtypes == {"float32", "complex64"}

\* ------------------------------------------------------- the libraries
\* What numpy and cupy leave to the build: the order of a sum (SumOrders),
\* the complex division (DivModes, and "double" for the numpy scalars of
\* cg_tomo_batch2) and |z| in a norm ("square": from re^2 + im^2, "hypot").
\* A call of method o on arrays of at most n entries that runs t iterations
\* is drawn one of them; a mode that the call does not read, or that
\* cannot differ from the first on n entries, is held at the first.
DefaultLib == [sum |-> "seq", div |-> "exact", abs |-> "square"]

Libs(o, n, t) ==
    LET cg == o \in {"cg_tomo", "cg_tomo_batch", "cg_tomo_batch2"}
    IN  {l \in [sum : SumOrders, div : DivModes \cup {"double"}, abs : {"square", "hypot"}] :
            /\ l.abs = "square" \/ o = "line_search"
            /\ \/ l.sum = "seq"
               \/ cg /\ t >= 1 /\ l.sum = "tree" /\ n > 2
               \/ cg /\ t >= 1 /\ l.sum = "pair" /\ n >= 8
               \/ cg /\ t >= 2 /\ l.sum = "pairf" /\ n >= 4 * NTHETA
            /\ \/ l.div = "exact"
               \/ cg /\ t >= 2 /\ (l.div # "double" \/ o = "cg_tomo_batch2")}
\* ---------------------------------------------------------------- Init
FreshLocals ==
    /\ op = "none" /\ pc = "idle"
    /\ argU = NoArray /\ argXi = NoArray /\ titer = 0
    /\ res = NoArray /\ k = 0
    /\ cu = NoArray /\ cxi = NoArray /\ ci = 0
    /\ Ru = NoArray /\ grad = NoArray /\ grad0 = NoArray
    /\ d = NoArray /\ Rd = NoArray /\ gamma = FlZero
    /\ lsGamma0 = FlZero /\ lsGamma = FlZero /\ lsHalvings = 0
    /\ lsTurn = 0 /\ dtype = "complex64"
    /\ fwdCalls = 0 /\ adjCalls = 0
    /\ ubMode = "live" /\ lib = DefaultLib
    /\ writes = [z \in VolIdx(nz) |-> 0]
    /\ trace = <<>>
    /\ gradLog = <<>>

\* SolverTomo(theta, ntheta, nz, n, pnz, center) has been constructed
Init ==
    /\ nz \in 1 .. MaxNz
    /\ pnz \in 1 .. MaxPnz
    /\ withDepth = 0 /\ blocks = 0 /\ exitKind = "none"
    /\ freeCalls = 0 /\ directFrees = 0
    /\ nativeAfterFree = FALSE
    /\ FreshLocals

\* ------------------------------------------------------- the life cycle
Quiet == pc \in {"idle", "done", "raised"}

\* the frame of the running call is dropped (the counts of its native
\* calls are kept until the caller has taken the outcome)
DropLocals ==
    /\ argU' = NoArray /\ argXi' = NoArray /\ titer' = 0
    /\ res' = NoArray /\ k' = 0
    /\ cu' = NoArray /\ cxi' = NoArray /\ ci' = 0
    /\ Ru' = NoArray /\ grad' = NoArray /\ grad0' = NoArray
    /\ d' = NoArray /\ Rd' = NoArray /\ gamma' = FlZero
    /\ lsGamma0' = FlZero /\ lsGamma' = FlZero /\ lsHalvings' = 0
    /\ lsTurn' = 0 /\ dtype' = "complex64"
    /\ ubMode' = "live" /\ lib' = DefaultLib
    /\ writes' = [z \in VolIdx(nz) |-> 0]
    /\ trace' = <<>> /\ gradLog' = <<>>

\* with s: ... on the session; __enter__ returns self, whatever the state
\* of the session (released, or inside a with-block already)
EnterWith ==
    /\ pc = "idle" /\ blocks < MaxBlocks
    /\ withDepth' = withDepth + 1
    /\ blocks' = blocks + 1
    /\ exitKind' = "none"
    /\ UNCHANGED <<nz, pnz, freeCalls, directFrees, op, pc, args, res, k, cu,
                   cxi, ci, cgLocals, lsVars, fwdCalls, adjCalls,
                   nativeAfterFree, ubMode, lib, writes, trace, gradLog>>

\* an __exit__ that would release only when the block ends without exception
ExitFreesOnSuccess(kind) == IF kind = "normal" THEN 1 ELSE 0

\* __exit__(type, value, traceback): self.free(), whatever the exception
ExitFrees(kind) == 1

\* leaving the n innermost with-blocks: Python calls __exit__ once for
\* each, and `freed` of these calls get as far as their self.free()
LeaveWith(kind, n, freed) ==
    /\ freeCalls' = freeCalls + freed * ExitFrees(kind)
    /\ exitKind' = IF n > 0 THEN kind ELSE exitKind
    /\ withDepth' = withDepth - n

\* the end of the with-block is reached
ExitNormal ==
    /\ withDepth > 0 /\ pc = "idle"
    /\ LeaveWith("normal", 1, 1)
    /\ UNCHANGED <<nz, pnz, blocks, directFrees, op, pc, args, res, k, cu, cxi,
                   ci, cgLocals, lsVars, fwdCalls, adjCalls, nativeAfterFree,
                   ubMode, lib, writes, trace, gradLog>>

\* s.free() called by the user: the method is public and nothing guards
\* it, inside a with-block or outside, on a live or a released session
DirectFree ==
    /\ pc = "idle" /\ directFrees < MaxDirectFrees
    /\ freeCalls' = freeCalls + 1
    /\ directFrees' = directFrees + 1
    /\ UNCHANGED <<nz, pnz, withDepth, blocks, exitKind, op, pc, args, res, k,
                   cu, cxi, ci, cgLocals, lsVars, fwdCalls, adjCalls,
                   nativeAfterFree, ubMode, lib, writes, trace, gradLog>>

\* ------------------------------------------------------ calling a method
\* A call starts from fresh locals.  in: the arguments and the locals the
\* call sets on entry.
StartCall(o, p, in, m) ==
    /\ pc = "idle"
    /\ op' = o /\ pc' = p
    /\ argU' = in.u /\ argXi' = in.xi /\ titer' = in.titer
    /\ res' = in.res /\ cu' = in.cu /\ cxi' = in.cxi
    /\ k' = 0 /\ ci' = 0
    /\ Ru' = in.ru /\ grad' = NoArray /\ grad0' = NoArray
    /\ d' = NoArray /\ Rd' = in.rd /\ gamma' = FlZero
    /\ lsGamma0' = in.g0 /\ lsGamma' = in.g0 /\ lsHalvings' = 0
    /\ lsTurn' = 0 /\ dtype' = in.dtype
    /\ fwdCalls' = 0 /\ adjCalls' = 0
    /\ ubMode' = IF Released THEN m ELSE "live"
    /\ lib' = in.lib
    /\ writes' = [z \in VolIdx(nz) |-> 0]
    /\ trace' = <<>> /\ gradLog' = <<>>
    /\ UNCHANGED <<session, nativeAfterFree>>

\* the caller takes the result (or the error) of the call that ended
Finish ==
    /\ pc \in {"done", "raised"}
    /\ op' = "none" /\ pc' = "idle"
    /\ DropLocals
    /\ fwdCalls' = 0 /\ adjCalls' = 0
    /\ UNCHANGED <<session, nativeAfterFree>>

NoIn == [u |-> NoArray, xi |-> NoArray, titer |-> 0, res |-> NoArray,
         cu |-> NoArray, cxi |-> NoArray, ru |-> NoArray, rd |-> NoArray,
         g0 |-> FlZero, dtype |-> "complex64", lib |-> DefaultLib]

\* the native calls a step makes: nf of fwd, na of adj
NativeCalled(nf, na) ==
    /\ fwdCalls' = fwdCalls + nf
    /\ adjCalls' = adjCalls + na
    /\ nativeAfterFree' = (nativeAfterFree \/ (Released /\ nf + na > 0))

\* ----------------------------------------------- fwd_tomo, adj_tomo (direct)
CallFwdTomo ==
    /\ pc = "idle"
    /\ \E u \in InVolumes(pnz), m \in UbModes :
           StartCall("fwd_tomo", "native", [NoIn EXCEPT !.u = u], m)

FwdTomoRun ==
    /\ op = "fwd_tomo" /\ pc = "native"
    /\ res' = FwdTomo(argU)
    /\ NativeCalled(1, 0)
    /\ pc' = "done"
    /\ UNCHANGED <<session, op, args, k, cu, cxi, ci, cgLocals, lsVars, ubMode,
                   lib, writes, trace, gradLog>>

CallAdjTomo ==
    /\ pc = "idle"
    /\ \E data \in InProjections(pnz), m \in UbModes :
           StartCall("adj_tomo", "native", [NoIn EXCEPT !.xi = data], m)

AdjTomoRun ==
    /\ op = "adj_tomo" /\ pc = "native"
    /\ res' = AdjTomo(argXi)
    /\ NativeCalled(0, 1)
    /\ pc' = "done"
    /\ UNCHANGED <<session, op, args, k, cu, cxi, ci, cgLocals, lsVars, ubMode,
                   lib, writes, trace, gradLog>>

\* ------------------------------------------------------- fwd_tomo_batch
CallFwdTomoBatch ==
    /\ pc = "idle"
    /\ \E u \in InVolumes(nz), m \in UbModes :
           StartCall("fwd_tomo_batch", "loop",
                     [NoIn EXCEPT !.u = u, !.res = ZerosProj(nz)], m)

Written(kk) == [z \in VolIdx(nz) |-> writes[z] + (IF z \in Ids(kk) THEN 1 ELSE 0)]

\* one turn of: for k in range(0, self.nz//self.pnz)
FwdBatchStep ==
    /\ op = "fwd_tomo_batch" /\ pc = "loop" /\ k < NumParts
    /\ res' = PutProj(res, k, FwdTomo(TakeVol(argU, k)))
    /\ writes' = Written(k)
    /\ NativeCalled(1, 0)
    /\ k' = k + 1
    /\ UNCHANGED <<session, op, pc, args, cu, cxi, ci, cgLocals, lsVars,
                   ubMode, lib, trace, gradLog>>

FwdBatchReturn ==
    /\ op = "fwd_tomo_batch" /\ pc = "loop" /\ k >= NumParts
    /\ pc' = "done"
    /\ UNCHANGED <<session, op, args, res, k, cu, cxi, ci, cgLocals, lsVars,
                   fwdCalls, adjCalls, nativeAfterFree, ubMode, lib, writes,
                   trace, gradLog>>

\* ------------------------------------------------------- adj_tomo_batch
CallAdjTomoBatch ==
    /\ pc = "idle"
    /\ \E data \in InProjections(nz), m \in UbModes :
           StartCall("adj_tomo_batch", "loop",
                     [NoIn EXCEPT !.xi = data, !.res = ZerosVol(nz)], m)

AdjBatchStep ==
    /\ op = "adj_tomo_batch" /\ pc = "loop" /\ k < NumParts
    /\ res' = PutVol(res, k, AdjTomo(TakeProj(argXi, k)))
    /\ writes' = Written(k)
    /\ NativeCalled(0, 1)
    /\ k' = k + 1
    /\ UNCHANGED <<session, op, pc, args, cu, cxi, ci, cgLocals, lsVars,
                   ubMode, lib, trace, gradLog>>

AdjBatchReturn ==
    /\ op = "adj_tomo_batch" /\ pc = "loop" /\ k >= NumParts
    /\ pc' = "done"
    /\ UNCHANGED <<session, op, args, res, k, cu, cxi, ci, cgLocals, lsVars,
                   fwdCalls, adjCalls, nativeAfterFree, ubMode, lib, writes,
                   trace, gradLog>>

\* ------------------------------------------------------------ line_search
CallLineSearch ==
    /\ pc = "idle"
    /\ \E ru \in LsVectors(0, MaxVal),
          rd \in LsVectors(-(MaxVal + 1), MaxVal + 1), xi0 \in LsTargets,
          g0 \in LsGammas, dt \in LsDtypes, m \in UbModes :
         \E l \in {x \in Libs("line_search", NTHETA, 0) :
                       dt = "complex64" \/ x.abs = "square"} :
           StartCall("line_search", "ls",
                     [NoIn EXCEPT !.cxi = xi0, !.ru = ru, !.rd = rd, !.g0 = g0,
                                  !.dtype = dt, !.lib = l], m)

\* while(minf(Ru)-minf(Ru+gamma*Rd) < 0): gamma *= 0.5
\* lsHalvings counts the halvings that changed gamma (half of infinity is
\* infinity: such a turn leaves the loop where it was).
LsHalve ==
    /\ pc = "ls"
    /\ LsTest(cxi, lsGamma, Ru, Rd) = "lt"
    /\ lsGamma' = Halve(lsGamma)
    /\ lsHalvings' = IF IsInf(lsGamma) THEN lsHalvings ELSE lsHalvings + 1
    /\ lsTurn' = 1 - lsTurn
    /\ UNCHANGED <<session, op, pc, args, res, k, cu, cxi, ci, cgLocals,
                   lsGamma0, dtype, fwdCalls, adjCalls, nativeAfterFree,
                   ubMode, lib, writes, trace, gradLog>>

\* return gamma; in cg: gamma = 0.5*self.line_search(minf, 1, Ru, Rd)
LsReturn ==
    /\ pc = "ls"
    /\ LsTest(cxi, lsGamma, Ru, Rd) # "lt"
    /\ IF op = "line_search"
       THEN /\ res' = lsGamma
            /\ pc' = "done"
            /\ UNCHANGED <<gamma, trace>>
       ELSE /\ gamma' = StepSize(lsGamma)
            /\ pc' = "upd"
            /\ trace' = Append(trace, "ls")
            /\ UNCHANGED res
    /\ UNCHANGED <<session, op, args, k, cu, cxi, ci, Ru, grad, grad0, d, Rd,
                   lsVars, fwdCalls, adjCalls, nativeAfterFree, ubMode, lib,
                   writes, gradLog>>

\* ------------------------------------- cg_tomo, cg_tomo_batch, cg_tomo_batch2
\* cg_tomo_batch2 is cg_tomo's loop over the batched transforms: one
\* transform of it makes nz//pnz native calls.
InCg == op \in {"cg_tomo", "cg_tomo_batch", "cg_tomo_batch2"}
CgFwd(x) == IF op = "cg_tomo_batch2" THEN FwdTomoBatch(x) ELSE FwdTomo(x)
CgAdj(x) == IF op = "cg_tomo_batch2" THEN AdjTomoBatch(x) ELSE AdjTomo(x)
CgNative == IF op = "cg_tomo_batch2" THEN NumParts ELSE 1

CallCgTomo ==
    /\ pc = "idle"
    /\ \E xi0 \in InProjections(pnz), u \in InInits(pnz), t \in InTiters,
          m \in UbModes :
         \E l \in Libs("cg_tomo", NTHETA * pnz, t) :
           StartCall("cg_tomo", "iter",
                     [NoIn EXCEPT !.u = u, !.xi = xi0, !.titer = t,
                                  !.cu = u, !.cxi = xi0, !.lib = l], m)

CallCgTomoBatch2 ==
    /\ pc = "idle"
    /\ \E xi0 \in InProjections(nz), u \in InInits(nz), t \in InTiters,
          m \in UbModes :
         \E l \in Libs("cg_tomo_batch2", NTHETA * nz, t) :
           StartCall("cg_tomo_batch2", "iter",
                     [NoIn EXCEPT !.u = u, !.xi = xi0, !.titer = t,
                                  !.cu = u, !.cxi = xi0, !.lib = l], m)

\* u = init.copy()
CallCgTomoBatch ==
    /\ pc = "idle"
    /\ \E xi0 \in InProjections(nz), init \in InInits(nz), t \in InTiters,
          m \in UbModes :
         \E l \in Libs("cg_tomo_batch", NTHETA * pnz, t) :
           StartCall("cg_tomo_batch", "loop",
                     [NoIn EXCEPT !.u = init, !.xi = xi0, !.titer = t,
                                  !.res = init, !.lib = l], m)

\* a staging that would give every turn the projections of partition 0
XiStageFirst(xi0, kk) == TakeProj(xi0, 0)

\* the partition whose projections are staged for turn kk
XiStage(xi0, kk) == TakeProj(xi0, kk)

\* for k: u_gpu = cp.array(u[ids]); xi0_gpu = cp.array(xi0[:, ids]);
\* then cg_tomo is entered with fresh locals
CgBatchStage ==
    /\ op = "cg_tomo_batch" /\ pc = "loop" /\ k < NumParts
    /\ cu' = TakeVol(res, k)
    /\ cxi' = XiStage(argXi, k)
    /\ ci' = 0
    /\ Ru' = NoArray /\ grad' = NoArray /\ grad0' = NoArray
    /\ d' = NoArray /\ Rd' = NoArray /\ gamma' = FlZero
    /\ trace' = <<>> /\ gradLog' = <<>>
    /\ pc' = "iter"
    /\ UNCHANGED <<session, op, args, res, k, lsVars, fwdCalls, adjCalls,
                   nativeAfterFree, ubMode, lib, writes>>

CgBatchReturn ==
    /\ op = "cg_tomo_batch" /\ pc = "loop" /\ k >= NumParts
    /\ pc' = "done"
    /\ UNCHANGED <<session, op, args, res, k, cu, cxi, ci, cgLocals, lsVars,
                   fwdCalls, adjCalls, nativeAfterFree, ubMode, lib, writes,
                   trace, gradLog>>

\* Ru = self.fwd_tomo(u)
CgForwardU ==
    /\ InCg /\ pc = "iter" /\ LoopContinues(ci, titer)
    /\ Ru' = CgFwd(cu)
    /\ NativeCalled(CgNative, 0)
    /\ trace' = Append(trace, "fwd_u")
    /\ pc' = "adj"
    /\ UNCHANGED <<session, op, args, res, k, cu, cxi, ci, grad, grad0, d, Rd,
                   gamma, lsVars, ubMode, lib, writes, gradLog>>

\* grad = self.adj_tomo(Ru-xi0) / (self.ntheta * self.n/2)
CgAdjoint ==
    /\ InCg /\ pc = "adj"
    /\ grad' = Gradient(CgAdj(FSub(Ru, cxi)))
    /\ NativeCalled(0, CgNative)
    /\ gradLog' = Append(gradLog, grad')
    /\ trace' = Append(trace, "adj")
    /\ pc' = "dir"
    /\ UNCHANGED <<session, op, args, res, k, cu, cxi, ci, Ru, grad0, d, Rd,
                   gamma, lsVars, ubMode, lib, writes>>

\* if i == 0: d = -grad  else: d = -grad + ... * d
CgDirection ==
    /\ InCg /\ pc = "dir"
    /\ d' = Direction(ci, grad, grad0, d)
    /\ trace' = Append(trace, "dir")
    /\ pc' = "fwd_d"
    /\ UNCHANGED <<session, op, args, res, k, cu, cxi, ci, Ru, grad, grad0, Rd,
                   gamma, lsVars, fwdCalls, adjCalls, nativeAfterFree, ubMode,
                   lib, writes, gradLog>>

\* Rd = self.fwd_tomo(d); line_search(minf, 1, Ru, Rd) is entered
CgForwardD ==
    /\ InCg /\ pc = "fwd_d"
    /\ Rd' = CgFwd(d)
    /\ NativeCalled(CgNative, 0)
    /\ lsGamma0' = FlOne /\ lsGamma' = FlOne /\ lsHalvings' = 0
    /\ lsTurn' = 0 /\ dtype' = dtype
    /\ trace' = Append(trace, "fwd_d")
    /\ pc' = "ls"
    /\ UNCHANGED <<session, op, args, res, k, cu, cxi, ci, Ru, grad, grad0, d,
                   gamma, ubMode, lib, writes, gradLog>>

\* grad0 = grad; u = u + gamma*d; the next i
CgUpdate ==
    /\ InCg /\ pc = "upd"
    /\ grad0' = grad
    /\ cu' = Update(cu, gamma, d)
    /\ ci' = ci + 1
    /\ trace' = Append(trace, "upd")
    /\ pc' = "iter"
    /\ UNCHANGED <<session, op, args, res, k, cxi, Ru, grad, d, Rd, gamma,
                   lsVars, fwdCalls, adjCalls, nativeAfterFree, ubMode, lib,
                   writes, gradLog>>

\* return u; in cg_tomo_batch: u[ids] = u_gpu.get() and the next k
CgReturn ==
    /\ InCg /\ pc = "iter" /\ ~LoopContinues(ci, titer)
    /\ IF op = "cg_tomo_batch"
       THEN /\ res' = PutVol(res, k, cu)
            /\ k' = k + 1
            /\ pc' = "loop"
       ELSE /\ res' = cu
            /\ pc' = "done"
            /\ UNCHANGED k
    /\ UNCHANGED <<session, op, args, cu, cxi, ci, cgLocals, lsVars, fwdCalls,
                   adjCalls, nativeAfterFree, ubMode, lib, writes, trace,
                   gradLog>>

\* ------------------------------------------------------------- errors
\* the positions at which the running call is about to call the native
\* transform: once, or nz//pnz times in a batched transform of
\* cg_tomo_batch2
AtNative ==
    \/ pc = "native"
    \/ op \in {"fwd_tomo_batch", "adj_tomo_batch"} /\ pc = "loop"
            /\ k < NumParts
    \/ InCg /\ CgNative > 0
            /\ \/ pc \in {"adj", "fwd_d"}
               \/ pc = "iter" /\ LoopContinues(ci, titer)

\* cg_tomo_batch is about to stage a partition on the device (cp.array),
\* whatever titer is
AtStaging == op = "cg_tomo_batch" /\ pc = "loop" /\ k < NumParts

\* the native calls of the step at hand
Pending == IF ~AtNative THEN 0 ELSE IF InCg THEN CgNative ELSE 1

\* the call that is about to be made is one of the native fwd
PendingFwd ==
    \/ op \in {"fwd_tomo", "fwd_tomo_batch"}
    \/ InCg /\ pc \in {"iter", "fwd_d"}

\* the running call ends with an exception after called of the native
\* calls of the step at hand have been made
Unwind ==
    /\ pc' = "raised"
    /\ DropLocals
    /\ \E called \in 0 .. Pending :
         NativeCalled(IF PendingFwd THEN called ELSE 0,
                      IF PendingFwd THEN 0 ELSE called)

\* A staging or an allocation fails (device out of memory), or a native
\* call is made and raises: the error propagates out of the method and
\* leaves the n innermost with-blocks, until the program catches it.
NativeRaise ==
    /\ AtNative \/ AtStaging
    /\ Unwind
    /\ \E n \in 0 .. withDepth : LeaveWith("error", n, n)
    /\ UNCHANGED <<nz, pnz, blocks, directFrees, op>>

\* KeyboardInterrupt at any point: the running call, if any, is unwound
\* (between two native calls of the step at hand, or inside one) and the
\* exception leaves the n innermost with-blocks, until the program catches
\* it.  __exit__ is Python code: an interrupt that arrives in it before
\* its self.free() leaves the block without the call, so that only freed
\* of the n blocks release.
Interrupt ==
    /\ \E n \in 0 .. withDepth : \E freed \in 0 .. n : LeaveWith("interrupt", n, freed)
    /\ IF Quiet THEN UNCHANGED <<pc, args, res, k, cu, cxi, ci, cgLocals,
                                 lsVars, ubMode, lib, writes, trace, gradLog,
                                 fwdCalls, adjCalls, nativeAfterFree>>
       ELSE Unwind
    /\ UNCHANGED <<nz, pnz, blocks, directFrees, op>>

Next ==
    \/ EnterWith \/ ExitNormal \/ Interrupt \/ DirectFree \/ NativeRaise
    \/ Finish
    \/ CallFwdTomo \/ FwdTomoRun \/ CallAdjTomo \/ AdjTomoRun
    \/ CallFwdTomoBatch \/ FwdBatchStep \/ FwdBatchReturn
    \/ CallAdjTomoBatch \/ AdjBatchStep \/ AdjBatchReturn
    \/ LsHalve \/ LsReturn
    \/ CallCgTomo \/ CallCgTomoBatch \/ CallCgTomoBatch2
    \/ CgBatchStage \/ CgBatchReturn
    \/ CgForwardU \/ CgAdjoint \/ CgDirection \/ CgForwardD \/ CgUpdate
    \/ CgReturn

Spec == Init /\ [][Next]_vars

\* line_search(minf, gamma, Ru, Rd) on its own: the arguments are drawn and
\* the loop runs (the method reads nothing of the session)
InitLS ==
    /\ nz = 1 /\ pnz = 1
    /\ withDepth = 0 /\ blocks = 0 /\ exitKind = "none"
    /\ freeCalls = 0 /\ directFrees = 0 /\ nativeAfterFree = FALSE
    /\ FreshLocals

NextLS == CallLineSearch \/ LsHalve \/ LsReturn

SpecLS == InitLS /\ [][NextLS]_vars

\* A turn of the while loop, told by what it changes: LsHalve flips lsTurn
\* and LsReturn leaves the loop, and a turn can be taken exactly when control
\* is in the loop (the loop test has an outcome for every gamma).
LoopTurn ==
    /\ pc = "ls"
    /\ \E t \in 0 .. 1, p \in {"ls", "done", "upd"} :
         /\ lsTurn' = t /\ pc' = p
         /\ (p # "ls" \/ t # lsTurn)

\* a call that has been made is run by the calling thread, which keeps
\* taking the turns of the loop
FairSpecLS == SpecLS /\ WF_<<pc, lsTurn>>(LoopTurn)

\* ======================================================== the claims
\* C1: for a session used as a context manager, free() is called exactly
\* once per with-block, on every way of leaving it, and never twice for
\* one session: once a with-block has been left the session has been
\* released, and at no time has free() been called more than once.
C1_FreedExactlyOncePerSession ==
    blocks >= 1 =>
        /\ withDepth = 0 => freeCalls >= 1
        /\ freeCalls <= 1

\* C1, the part __exit__ does guarantee: every step that leaves with-blocks
\* by their normal end or by an error calls free() exactly once for each
\* block it leaves, and a step that leaves them by a KeyboardInterrupt calls
\* free() at most once for each (an interrupt inside __exit__ skips the
\* call).
C1_ExitFreesOnce ==
    [][withDepth' < withDepth =>
           IF exitKind' = "interrupt"
           THEN freeCalls' - freeCalls \in 0 .. (withDepth - withDepth')
           ELSE freeCalls' = freeCalls + (withDepth - withDepth')]_vars

\* two with-blocks on one session have been left, the second one by an
\* error: free() has been called twice
C1_Witness ==
    /\ blocks = 2 /\ withDepth = 0 /\ exitKind = "error"
    /\ directFrees = 0 /\ freeCalls = 2

\* C2: once the session is released, no call of a transform or solver
\* method reaches the native fwd / adj operations.
C2_NoNativeCallAfterRelease == nativeAfterFree = FALSE

\* C3: when nz is an exact multiple of pnz, the returned fwd_tomo_batch(u)
\* is the concatenation along the depth axis of fwd_tomo applied to each
\* partition of u: the entry at depth z is the entry z mod pnz of the
\* transform of partition z div pnz, and every depth index was written
\* exactly once; the same for adj_tomo_batch against adj_tomo.
C3_BatchIsConcatenation ==
    (pc = "done" /\ nz % pnz = 0) =>
        /\ op = "fwd_tomo_batch" =>
             /\ DOMAIN res = ProjIdx(nz)
             /\ \A p \in ProjIdx(nz) :
                  res[p] = FwdTomo(TakeVol(argU, p[2] \div pnz))[<<p[1], p[2] % pnz>>]
             /\ \A z \in VolIdx(nz) : writes[z] = 1
        /\ op = "adj_tomo_batch" =>
             /\ DOMAIN res = VolIdx(nz)
             /\ \A z \in VolIdx(nz) :
                  res[z] = AdjTomo(TakeProj(argXi, z \div pnz))[z % pnz]
             /\ \A z \in VolIdx(nz) : writes[z] = 1

\* adj_tomo_batch has returned on two partitions, whose results differ
C3_Witness ==
    /\ op = "adj_tomo_batch" /\ pc = "done" /\ ~Released
    /\ nz = 2 * pnz /\ pnz = 2
    /\ TakeVol(res, 0) # TakeVol(res, 1)

\* C4: cg_tomo_batch(xi0, init, titer = 0) returns a volume equal to init
\* and makes no forward or adjoint transform call.
C4_ZeroIterationsReturnInit ==
    (op = "cg_tomo_batch" /\ pc = "done" /\ titer = 0) =>
        res = argU /\ fwdCalls = 0 /\ adjCalls = 0

\* such a call has returned, on two partitions and a non-zero init
C4_Witness ==
    /\ op = "cg_tomo_batch" /\ pc = "done" /\ titer = 0
    /\ NumParts = 2 /\ argU # ZerosVol(nz) /\ res = argU

\* C6: when nz is not an exact multiple of pnz, fwd_tomo_batch,
\* adj_tomo_batch and cg_tomo_batch make no native call and return no
\* result (they fail before the first device call).
C6_NonMultipleDepthRejected ==
    (op \in {"fwd_tomo_batch", "adj_tomo_batch", "cg_tomo_batch"} /\ nz % pnz # 0) =>
        pc # "done" /\ fwdCalls = 0 /\ adjCalls = 0

C7_PartitionsIndependent ==
    (op = "cg_tomo_batch" /\ pc = "done") =>
        /\ \A kk \in 0 .. (NumParts - 1) :
             TakeVol(res, kk) = CgTomo(TakeProj(argXi, kk), TakeVol(argU, kk), titer)
        /\ \A z \in VolIdx(nz) : z >= NumParts * pnz => res[z] = argU[z]

\* a run over two partitions with different data has returned, and has
\* changed the volume
C7_Witness ==
    /\ op = "cg_tomo_batch" /\ pc = "done" /\ ~Released
    /\ NumParts = 2 /\ titer >= 1
    /\ TakeProj(argXi, 0) # TakeProj(argXi, 1)
    /\ TakeVol(res, 0) # TakeVol(res, 1)
    /\ res # argU

\* C10: a cg_tomo run that has returned made exactly titer iterations, each
\* of them the steps forward(u), adjoint, direction, forward(d), line
\* search, update in this order, hence 2*titer forward and titer adjoint
\* calls; the direction is -grad in iteration 0 and the conjugate direction
\* built from the previous direction in every later one; and in iteration
\* i >= 1 the previous gradient used is the gradient of iteration i-1.
C10_ExactlyTiterIterations ==
    /\ [](/\ (op = "cg_tomo" /\ pc = "done") =>
               /\ ci = titer
               /\ trace = [j \in 1 .. (6 * titer) |->
                             <<"fwd_u", "adj", "dir", "fwd_d", "ls", "upd">>[((j - 1) % 6) + 1]]
               /\ fwdCalls = 2 * titer
               /\ adjCalls = titer
          /\ (InCg /\ pc = "dir") =>
               /\ Len(gradLog) = ci + 1
               /\ gradLog[ci + 1] = grad
               /\ ci >= 1 => grad0 = gradLog[ci])
    /\ [][(InCg /\ pc = "dir" /\ pc' = "fwd_d") =>
            d' = IF ci = 0 THEN FNeg(grad)
                 ELSE FAdd(FNeg(grad),
                           FScale(PRCoef(grad, gradLog[ci], d), d))]_vars

\* a run of two iterations has returned; its gradients differ and its last
\* direction is not the steepest descent
C10_Witness ==
    /\ op = "cg_tomo" /\ pc = "done" /\ ~Released
    /\ titer = 2 /\ ci = 2 /\ Len(gradLog) = 2
    /\ gradLog[1] # gradLog[2]
    /\ d # FNeg(grad)

\* C8 as stated, on the calls whose outcome no library decides (an entry of
\* Rd is 0, so that gamma*Rd has the entry inf*0 = NaN for an infinite gamma
\* on float32 and on complex64 arrays, however the norm takes |z|): the
\* gamma line_search returns satisfies
\* minf(Ru) - minf(Ru + gamma*Rd) >= 0 (it is the largest value of the
\* halving sequence that does).
C8_ReturnedGammaSatisfiesCondition ==
    (op = "line_search" /\ pc = "done" /\ \E x \in DOMAIN Rd : Rd[x] = FlZero) =>
        LsTest(cxi, res, Ru, Rd) = "ge"

\* C8, the part the loop does guarantee: the returned gamma is the first
\* value of the sequence gamma0, gamma0/2, gamma0/4, ... for which the loop
\* test minf(Ru) - minf(Ru + gamma*Rd) < 0 is false, and every earlier
\* value of the sequence passes the test.  (A step below the smallest
\* positive float is 0; half of an infinite gamma0 is gamma0.)
C8_FirstGammaFailingLoopTest ==
    (op = "line_search" /\ pc = "done") =>
        LET at[m \in 0 .. lsHalvings] ==
                IF m = 0 THEN lsGamma0 ELSE Halve(at[m - 1])
        IN  /\ res = at[lsHalvings]
            /\ LsTest(cxi, res, Ru, Rd) # "lt"
            /\ \A m \in 0 .. (lsHalvings - 1) : LsTest(cxi, at[m], Ru, Rd) = "lt"

\* a call on float32 arrays with a zero entry in Rd has returned its
\* infinite gamma0, for which the difference of the objectives is NaN
C8_Witness ==
    /\ op = "line_search" /\ pc = "done" /\ dtype = "float32"
    /\ \E x \in DOMAIN Rd : Rd[x] = FlZero
    /\ IsInf(lsGamma0) /\ res = lsGamma0 /\ lsHalvings = 0
    /\ LsTest(cxi, res, Ru, Rd) = "nan"

\* C9: every call of line_search returns: a loop that has been entered is
\* left after finitely many halvings.
C9_LineSearchTerminates == (pc = "ls") ~> (pc = "done")
=============================================================================
